---- MODULE Spec2Model ----
(***************************************************************************)
(* A model of InstagramInsightsScraper (src/web_scrapper.py):              *)
(*   - extract_post_views: the multi-pass sampling loop, the spatial       *)
(*     deduplication, the size / 250px classification, the fallback        *)
(*     (_extract_with_xpath), the final ordering and the record building;  *)
(*   - scroll_to_load_all_posts: the lazy-loading scroll loop.             *)
(* The browser (the render surface) is the environment: the page, its      *)
(* layout metrics, the per-pass layout jitter, failures of driver calls    *)
(* and the wall clock are its choices.                                     *)
(***************************************************************************)
EXTENDS Integers, Sequences, FiniteSets, TLC

VARIABLES
    surface,          \* the page the driver is attached to (environment)
    scrollY,          \* window.scrollY of the browser (environment)
    now,              \* the wall clock read by datetime.now() (environment)
    pc,               \* position inside extract_post_views
    total_height,     \* local of extract_post_views (line 223)
    viewport_height,  \* local of extract_post_views (line 224)
    scroll_position,  \* local of extract_post_views (line 227)
    passes,           \* number of completed loop iterations (lines 228-236)
    all_numbers,      \* local list (line 220)
    dedup_order,      \* unique_numbers as the deduplication loop left it
    unique_numbers,   \* local list (line 244), sorted in place at line 261
    view_counts,      \* local list (line 265 / 287), sorted in place at 292
    primary_counts,   \* the classifier's result, kept when line 287 drops it
    fallback_used,    \* whether _extract_with_xpath was called in this run
    fallback_counts,  \* what _extract_with_xpath returned (line 287)
    pre_sort,         \* view_counts as it stood before the sort of line 292
    idx,              \* loop index i of the for loop at line 297
    posts_data,       \* local list (line 157)
    self_posts_data,  \* self.posts_data (lines 65, 312)
    returned,         \* the lists returned by the completed runs, in order
    s_pc,             \* position inside scroll_to_load_all_posts
    expected_posts,   \* argument of scroll_to_load_all_posts
    max_scrolls,      \* argument of scroll_to_load_all_posts
    last_height,      \* local (line 94)
    scroll_count,     \* local (line 95)
    no_change_count,  \* local (line 96)
    current_posts,    \* local (line 112)
    measured,         \* every height measured so far (lines 94, 109)
    stop_reason,      \* which exit the loop of lines 98-129 took
    top_scrolls       \* number of window.scrollTo(0, 0) issued at line 132

extract_vars ==
    <<surface, scrollY, now, pc, total_height, viewport_height,
      scroll_position, passes, all_numbers, dedup_order, unique_numbers,
      view_counts, primary_counts, fallback_used, fallback_counts, pre_sort,
      idx, posts_data, self_posts_data, returned>>

scroll_vars ==
    <<s_pc, expected_posts, max_scrolls, last_height, scroll_count,
      no_change_count, current_posts, measured, stop_reason, top_scrolls>>

vars == <<extract_vars, scroll_vars>>

----------------------------------------------------------------------------
(* Bounds of the model.                                                     *)

\* Largest layout shift, in pixels, between two sampling passes.
JitterPx == 20
\* Number of sampling passes whose layout shift the environment chooses.
JitterPasses == 2
\* Cap on the sampling passes explored when the loop does not end by itself.
PassCap == 52
\* Last instant of the wall clock.
MaxClock == 1
\* Largest max_scrolls argument explored.
MaxScrollArg == 6

----------------------------------------------------------------------------
(* Text helpers.  A text is a sequence of one-character strings.            *)

Digits == {"0", "1", "2", "3", "4", "5", "6", "7", "8", "9"}
Suffixes == {"K", "M", "B", "k", "m", "b"}

RECURSIVE LStrip(_)
LStrip(cs) ==
    IF cs # <<>> /\ Head(cs) = " " THEN LStrip(Tail(cs)) ELSE cs

RECURSIVE RStrip(_)
RStrip(cs) ==
    IF cs # <<>> /\ cs[Len(cs)] = " "
    THEN RStrip(SubSeq(cs, 1, Len(cs) - 1))
    ELSE cs

\* str.strip() / String.prototype.trim()
Strip(cs) == RStrip(LStrip(cs))

\* The characters as one string value.
RECURSIVE Join(_)
Join(cs) == IF cs = <<>> THEN "" ELSE Head(cs) \o Join(Tail(cs))

AllIn(cs, lo, hi, S) == \A k \in lo..hi : cs[k] \in S

\* re.match(r"^\d+\.?\d*[KMBkmb]?$", text)
PyPattern(cs) ==
    \E a \in 1..Len(cs), d \in 0..1, b \in 0..Len(cs), s \in 0..1 :
        /\ a + d + b + s = Len(cs)
        /\ AllIn(cs, 1, a, Digits)
        /\ d = 1 => cs[a + 1] = "."
        /\ AllIn(cs, a + d + 1, a + d + b, Digits)
        /\ s = 1 => cs[Len(cs)] \in Suffixes

\* text.match(/^(\d+\.?\d*)\s*([KMBkmb])?$/)
JsPattern(cs) ==
    \E a \in 1..Len(cs), d \in 0..1, b \in 0..Len(cs),
       w \in 0..Len(cs), s \in 0..1 :
        /\ a + d + b + w + s = Len(cs)
        /\ AllIn(cs, 1, a, Digits)
        /\ d = 1 => cs[a + 1] = "."
        /\ AllIn(cs, a + d + 1, a + d + b, Digits)
        /\ AllIn(cs, a + d + b + 1, a + d + b + w, {" "})
        /\ s = 1 => cs[Len(cs)] \in Suffixes

----------------------------------------------------------------------------
(* The Token Scanner: js_script, run in the browser at scroll offset sy     *)
(* with the layout shifted by jit = <<dx, dy>>.                             *)

\* The text js_script reads from one element.
ElementText(el) ==
    LET direct == Strip(el.direct)
    IN  IF direct = <<>> /\ el.leaf THEN Strip(el.inner) ELSE direct

\* el.getBoundingClientRect()
ClientRect(el, jit, sy) ==
    [top    |-> el.top + jit[2] - sy,
     left   |-> el.left + jit[1],
     width  |-> el.width,
     height |-> el.height]

RectAccepted(rect) ==
    /\ rect.width > 0 /\ rect.height > 0
    /\ rect.top > 50 /\ rect.top < 10000
    /\ rect.left > 0 /\ rect.left < 2000

RECURSIVE ScanTokens(_, _, _)
ScanTokens(els, jit, sy) ==
    IF els = <<>> THEN <<>>
    ELSE LET el   == Head(els)
             text == ElementText(el)
             rect == ClientRect(el, jit, sy)
             rest == ScanTokens(Tail(els), jit, sy)
         IN  IF text # <<>> /\ JsPattern(text) /\ RectAccepted(rect)
             THEN <<[text   |-> Join(text),
                     top    |-> rect.top + sy,
                     left   |-> rect.left,
                     width  |-> rect.width,
                     height |-> rect.height]>> \o rest
             ELSE rest

\* window.scrollTo(0, y): the browser clamps the offset to the scrollable range.
ScrollTarget(y) ==
    LET maxY == IF surface.doc_height > surface.inner_height
                THEN surface.doc_height - surface.inner_height ELSE 0
    IN  IF y < 0 THEN 0 ELSE IF y > maxY THEN maxY ELSE y

\* The layout shift of the k-th sampling pass.
JitterAt(k) ==
    IF k <= Len(surface.jitters) THEN surface.jitters[k] ELSE <<0, 0>>

----------------------------------------------------------------------------
(* The Spatial Deduplicator (lines 243-255).                                *)

\* Variant: the key leaves the text out.
DedupKeyWithoutText(num) ==
    ToString(num.left \div 150) \o "_" \o ToString(num.top \div 150)

DedupKey(num) ==
    ToString(num.left \div 150) \o "_" \o ToString(num.top \div 150)
        \o "_" \o num.text

RECURSIVE DedupLoop(_, _, _)
DedupLoop(nums, seen, unique) ==
    IF nums = <<>> THEN unique
    ELSE LET num == Head(nums)
             key == DedupKey(num)
         IN  IF key \notin seen
             THEN DedupLoop(Tail(nums), seen \cup {key}, Append(unique, num))
             ELSE DedupLoop(Tail(nums), seen, unique)

Deduplicate(nums) == DedupLoop(nums, {}, <<>>)

----------------------------------------------------------------------------
(* list.sort(key=lambda x: (int(x["top"] // 200), x["left"])): a stable     *)
(* sort on the pair (row band, left), compared lexicographically.           *)

RowBand(num) == num.top \div 200

KeyLess(a, b) ==
    \/ RowBand(a) < RowBand(b)
    \/ RowBand(a) = RowBand(b) /\ a.left < b.left

\* Variant: x goes before the elements with an equal key (not stable).
RECURSIVE InsertBeforeEqual(_, _)
InsertBeforeEqual(s, x) ==
    IF s = <<>> THEN <<x>>
    ELSE IF ~KeyLess(Head(s), x) THEN <<x>> \o s
         ELSE <<Head(s)>> \o InsertBeforeEqual(Tail(s), x)

\* s is sorted; x goes after every element whose key is not greater.
RECURSIVE InsertSorted(_, _)
InsertSorted(s, x) ==
    IF s = <<>> THEN <<x>>
    ELSE IF KeyLess(x, Head(s)) THEN <<x>> \o s
         ELSE <<Head(s)>> \o InsertSorted(Tail(s), x)

RECURSIVE SortLoop(_, _)
SortLoop(todo, done) ==
    IF todo = <<>> THEN done
    ELSE SortLoop(Tail(todo), InsertSorted(done, Head(todo)))

\* Variant: the list is left in the order it came in.
SortSkipped(nums) == nums

SortByPosition(nums) == SortLoop(nums, <<>>)

----------------------------------------------------------------------------
(* The Metric Classifier (lines 263-280).                                   *)

SizeAccepted(num) ==
    /\ ~(num.width < 10 \/ num.width > 100)
    /\ ~(num.height < 10 \/ num.height > 50)

\* Variant: the classifier reuses the 150-pixel grid of the deduplication.
PosKeyFine(num) ==
    ToString(num.left \div 150) \o "_" \o ToString(num.top \div 150)

PosKey(num) ==
    ToString(num.left \div 250) \o "_" \o ToString(num.top \div 250)

RECURSIVE ClassifyLoop(_, _, _)
ClassifyLoop(nums, seen_positions, counts) ==
    IF nums = <<>> THEN counts
    ELSE LET num == Head(nums)
         IN  IF ~SizeAccepted(num)
             THEN ClassifyLoop(Tail(nums), seen_positions, counts)
             ELSE IF PosKey(num) \notin seen_positions
                  THEN ClassifyLoop(Tail(nums),
                                    seen_positions \cup {PosKey(num)},
                                    Append(counts, num))
                  ELSE ClassifyLoop(Tail(nums), seen_positions, counts)

Classify(nums) == ClassifyLoop(nums, {}, <<>>)

\* Variant: the threshold itself counts as too few.
TooFewInclusive(counts) == Len(counts) <= 10

\* The test of line 285.
TooFew(counts) == Len(counts) < 10

\* Line 236: the next scroll offset.
NextScrollPosition(position, viewport) == position + (viewport - 100)

----------------------------------------------------------------------------
(* The Fallback Extractor, _extract_with_xpath (lines 315-372).             *)

XpathKey(span) ==
    ToString(span.x \div 200) \o "_" \o ToString(span.y \div 200)

RECURSIVE XpathLoop(_, _, _)
XpathLoop(spans, seen_positions, results) ==
    IF spans = <<>> THEN results
    ELSE LET span == Head(spans)
             text == Strip(span.text)
             skip == XpathLoop(Tail(spans), seen_positions, results)
         IN  IF span.stale THEN skip                  \* lines 363-366
             ELSE IF text = <<>> THEN skip
             ELSE IF ~PyPattern(text) THEN skip
             ELSE IF span.width <= 0 \/ span.height <= 0 THEN skip
             ELSE IF span.width < 15 \/ span.width > 80 THEN skip
             ELSE IF XpathKey(span) \in seen_positions THEN skip
             ELSE XpathLoop(Tail(spans),
                            seen_positions \cup {XpathKey(span)},
                            Append(results,
                                   [text   |-> Join(text),
                                    top    |-> span.y,
                                    left   |-> span.x,
                                    width  |-> span.width,
                                    height |-> span.height]))

\* find_elements raising is caught at line 368: the result is then empty.
ExtractWithXpath(find_fails, spans) ==
    IF find_fails THEN <<>> ELSE XpathLoop(spans, {}, <<>>)

----------------------------------------------------------------------------
(* Record construction (lines 298-308).                                     *)

\* Variant: the label uses the loop index as it is.
PostDataZeroBased(i, num_data, clock) ==
    [label      |-> "image" \o ToString(i),
     views      |-> num_data.text,
     likes      |-> "None",
     comments   |-> "None",
     shares     |-> "None",
     saves      |-> "None",
     image_src  |-> "None",
     alt_text   |-> "None",
     scraped_at |-> clock]

PostData(i, num_data, clock) ==
    [label      |-> "image" \o ToString(i + 1),
     views      |-> num_data.text,
     likes      |-> "None",
     comments   |-> "None",
     shares     |-> "None",
     saves      |-> "None",
     image_src  |-> "None",
     alt_text   |-> "None",
     scraped_at |-> clock]

----------------------------------------------------------------------------
(* The pages the environment can present.                                   *)

Texts ==
    << <<"1", "2", "0">>, <<"4", ".", "4", "K">>, <<"8", "9">>,
       <<"1", ".", "2", "M">>, <<"3", ".", "1", "K">>, <<"5", "0", "0">>,
       <<"5", "0">>, <<"1", "0", "0">>, <<"2", ".", "5", "B">>,
       <<"7", "k">>, <<"6", "4">>, <<"3", ".", "5", "K">> >>

Lefts == <<10, 300, 600>>

Element(direct, inner, leaf, top, left, width, height) ==
    [direct |-> direct, inner |-> inner, leaf |-> leaf,
     top |-> top, left |-> left, width |-> width, height |-> height]

\* A grid item: a 40x20 leaf holding its own text.
Item(cs, top, left) == Element(cs, cs, TRUE, top, left, 40, 20)

\* n items, three per row, rows `step` pixels apart, in reading order.
Grid(n, step) ==
    [k \in 1..n |->
        Item(Texts[k], 100 + step * ((k - 1) \div 3), Lefts[((k - 1) % 3) + 1])]

\* Numeric-looking text that is no per-item metric, and other page furniture.
Furniture ==
    << Element(<<"1", "0", "0", "0">>, <<>>, TRUE, 60, 1200, 500, 60),
       Element(<<"7">>, <<>>, TRUE, 130, 50, 5, 8),
       Element(<<"V", "i", "e", "w", "s">>, <<>>, TRUE, 70, 10, 60, 20),
       Element(<<" ", "1", "2", " ">>, <<>>, TRUE, 120, 260, 30, 15),
       Element(<<>>, <<"4", ".", "4", "K">>, FALSE, 90, 290, 200, 200),
       Element(<<>>, <<"9", "9">>, TRUE, 700, 1200, 40, 20),
       Element(<<"6", "4">>, <<>>, TRUE, 310, 900, 40, 20),
       Element(<<"7", "k">>, <<>>, TRUE, 260, 900, 40, 20),
       Element(<<"5", " ", "K">>, <<>>, TRUE, 210, 900, 40, 20),
       Element(<<"8", "8">>, <<>>, TRUE, 700, 240, 40, 20) >>

Pages == {"empty", "grid6", "grid9", "grid10", "busy"}

\* The text-bearing elements of a page, in document order.
PageElements(page) ==
    CASE page = "empty"  -> <<>>
      [] page = "grid6"  -> Grid(6, 200)
      [] page = "grid9"  -> Grid(9, 300)
      [] page = "grid10" -> Grid(10, 300)
      [] page = "busy"   -> Grid(12, 300) \o Furniture

Span(text, x, y, width, height, stale) ==
    [text |-> text, x |-> x, y |-> y, width |-> width, height |-> height,
     stale |-> stale]

\* The <span> population of a page whose grid the fallback mostly misses.
FewSpans ==
    << Span(<<"3", ".", "1", "K">>, 10, 350, 40, 20, FALSE),
       Span(<<" ", "4", ".", "4", "K", " ">>, 300, 100, 40, 20, FALSE),
       Span(<<" ">>, 600, 100, 40, 20, FALSE),
       Span(<<"V", "i", "e", "w", "s">>, 600, 100, 40, 20, FALSE),
       Span(<<"5", " ", "K">>, 600, 100, 40, 20, FALSE),
       Span(<<"8", "9">>, 600, 100, 90, 20, FALSE),
       Span(<<"8", "9">>, 600, 100, 12, 20, FALSE),
       Span(<<"8", "9">>, 600, 100, 40, 0, FALSE),
       Span(<<"8", "9">>, 600, 100, 40, 20, TRUE),
       Span(<<"7", "7">>, 320, 110, 40, 20, FALSE),
       Span(<<"1", "2", "0">>, 10, 100, 40, 20, FALSE) >>

\* The items of an n-item grid as spans.
RECURSIVE GridSpans(_)
GridSpans(els) ==
    IF els = <<>> THEN <<>>
    ELSE <<Span(Head(els).inner, Head(els).left, Head(els).top,
                Head(els).width, Head(els).height, FALSE)>>
         \o GridSpans(Tail(els))

SpanSets == {"none", "unavailable", "few", "grid12"}

\* The <span> elements find_elements returns, in document order.
PageSpans(name) ==
    CASE name = "none"        -> <<>>
      [] name = "unavailable" -> <<>>
      [] name = "few"         -> FewSpans
      [] name = "grid12"      -> GridSpans(Grid(12, 300))

Jitters == { <<0, 0>>, <<0 - JitterPx, 0>>, <<JitterPx, JitterPx>> }

Surface(page, sp, dh, ih, js) ==
    [page |-> page, spans |-> sp, doc_height |-> dh, inner_height |-> ih,
     jitters |-> js]

\* Pages with content, on a window tall enough for the loop to advance.
OrdinarySurfaces ==
    { Surface(page, sp, 1300, 700, js) :
        page \in Pages, sp \in SpanSets, js \in [1..JitterPasses -> Jitters] }

\* Layout metrics at the edges: no height, a window of at most 100 pixels,
\* a document of more than 50 strides.  The page shows no numbers.
EdgeMetrics == { <<0, 700>>, <<1300, 100>>, <<1300, 60>>, <<5100, 200>> }

EdgeSurfaces ==
    { Surface("empty", "none", m[1], m[2], <<>>) : m \in EdgeMetrics }

Surfaces == OrdinarySurfaces \cup EdgeSurfaces

----------------------------------------------------------------------------
(* scroll_to_load_all_posts is idle while extract_post_views is modelled.   *)

ScrollIdle ==
    /\ s_pc = "idle"
    /\ expected_posts = <<>>
    /\ max_scrolls = 0
    /\ last_height = 0
    /\ scroll_count = 0
    /\ no_change_count = 0
    /\ current_posts = 0
    /\ measured = <<>>
    /\ stop_reason = "none"
    /\ top_scrolls = 0

\* Variant: the run appends to the list the scraper already holds.
KeptPostsData == self_posts_data

\* Line 157: the record list of a run starts empty.
NewPostsData == <<>>

\* The locals of extract_post_views at entry (lines 157, 220).
EnterExtract ==
    /\ pc = "start"
    /\ total_height = 0
    /\ viewport_height = 0
    /\ scroll_position = 0
    /\ passes = 0
    /\ all_numbers = <<>>
    /\ dedup_order = <<>>
    /\ unique_numbers = <<>>
    /\ view_counts = <<>>
    /\ primary_counts = <<>>
    /\ fallback_used = FALSE
    /\ fallback_counts = <<>>
    /\ pre_sort = <<>>
    /\ idx = 0
    /\ posts_data = NewPostsData

Init ==
    /\ surface \in Surfaces
    /\ scrollY = 0
    /\ now = 0
    /\ self_posts_data = <<>>
    /\ returned = <<>>
    /\ EnterExtract
    /\ ScrollIdle

----------------------------------------------------------------------------
(* extract_post_views, step by step.                                        *)

\* Lines 223-227: read the layout metrics.
ReadMetrics ==
    /\ pc = "start"
    /\ total_height' = surface.doc_height
    /\ viewport_height' = surface.inner_height
    /\ scroll_position' = 0
    /\ pc' = "loop"
    /\ UNCHANGED <<surface, scrollY, now, passes, all_numbers, dedup_order,
                   unique_numbers, view_counts, primary_counts,
                   fallback_used, fallback_counts, pre_sort, idx, posts_data,
                   self_posts_data, returned>>
    /\ UNCHANGED scroll_vars

\* Lines 228-236: one iteration of the sampling loop.
SamplePass ==
    /\ pc = "loop"
    /\ scroll_position < total_height
    /\ passes < PassCap
    /\ scrollY' = ScrollTarget(scroll_position)
    /\ all_numbers' = all_numbers
           \o ScanTokens(PageElements(surface.page), JitterAt(passes + 1), scrollY')
    /\ scroll_position' = NextScrollPosition(scroll_position, viewport_height)
    /\ passes' = passes + 1
    /\ UNCHANGED <<surface, now, pc, total_height, viewport_height,
                   dedup_order, unique_numbers, view_counts, primary_counts,
                   fallback_used, fallback_counts, pre_sort, idx, posts_data,
                   self_posts_data, returned>>
    /\ UNCHANGED scroll_vars

\* Line 229 raises: the scroll command fails and the exception leaves the
\* method; nothing in it catches the exception.
ScrollFails ==
    /\ pc = "loop"
    /\ scroll_position < total_height
    /\ passes < PassCap
    /\ pc' = "raised"
    /\ UNCHANGED <<surface, scrollY, now, total_height, viewport_height,
                   scroll_position, passes, all_numbers, dedup_order,
                   unique_numbers, view_counts, primary_counts,
                   fallback_used, fallback_counts, pre_sort, idx, posts_data,
                   self_posts_data, returned>>
    /\ UNCHANGED scroll_vars

\* Line 233 raises: the page was scrolled, the snapshot query fails and the
\* exception leaves the method.
SnapshotFails ==
    /\ pc = "loop"
    /\ scroll_position < total_height
    /\ passes < PassCap
    /\ scrollY' = ScrollTarget(scroll_position)
    /\ pc' = "raised"
    /\ UNCHANGED <<surface, now, total_height, viewport_height,
                   scroll_position, passes, all_numbers, dedup_order,
                   unique_numbers, view_counts, primary_counts,
                   fallback_used, fallback_counts, pre_sort, idx, posts_data,
                   self_posts_data, returned>>
    /\ UNCHANGED scroll_vars

\* Lines 228, 238-239: the loop condition fails; scroll back to the top.
ScrollBack ==
    /\ pc = "loop"
    /\ ~(scroll_position < total_height)
    /\ scrollY' = ScrollTarget(0)
    /\ pc' = "dedup"
    /\ UNCHANGED <<surface, now, total_height, viewport_height,
                   scroll_position, passes, all_numbers, dedup_order,
                   unique_numbers, view_counts, primary_counts,
                   fallback_used, fallback_counts, pre_sort, idx, posts_data,
                   self_posts_data, returned>>
    /\ UNCHANGED scroll_vars

\* Lines 243-255.
DedupStep ==
    /\ pc = "dedup"
    /\ unique_numbers' = Deduplicate(all_numbers)
    /\ dedup_order' = unique_numbers'
    /\ pc' = "sort"
    /\ UNCHANGED <<surface, scrollY, now, total_height, viewport_height,
                   scroll_position, passes, all_numbers, view_counts,
                   primary_counts, fallback_used, fallback_counts, pre_sort,
                   idx, posts_data, self_posts_data, returned>>
    /\ UNCHANGED scroll_vars

\* Line 261.
SortStep ==
    /\ pc = "sort"
    /\ unique_numbers' = SortByPosition(unique_numbers)
    /\ pc' = "classify"
    /\ UNCHANGED <<surface, scrollY, now, total_height, viewport_height,
                   scroll_position, passes, all_numbers, dedup_order,
                   view_counts, primary_counts, fallback_used,
                   fallback_counts, pre_sort, idx, posts_data,
                   self_posts_data, returned>>
    /\ UNCHANGED scroll_vars

\* Lines 263-280.
ClassifyStep ==
    /\ pc = "classify"
    /\ view_counts' = Classify(unique_numbers)
    /\ primary_counts' = view_counts'
    /\ pc' = "escalate"
    /\ UNCHANGED <<surface, scrollY, now, total_height, viewport_height,
                   scroll_position, passes, all_numbers, dedup_order,
                   unique_numbers, fallback_used, fallback_counts, pre_sort,
                   idx, posts_data, self_posts_data, returned>>
    /\ UNCHANGED scroll_vars

\* Lines 284-287.
EscalateStep ==
    /\ pc = "escalate"
    /\ IF TooFew(view_counts)
       THEN /\ view_counts' = ExtractWithXpath(surface.spans = "unavailable",
                                            PageSpans(surface.spans))
            /\ fallback_counts' = view_counts'
            /\ fallback_used' = TRUE
       ELSE UNCHANGED <<view_counts, fallback_counts, fallback_used>>
    /\ pc' = "order"
    /\ UNCHANGED <<surface, scrollY, now, total_height, viewport_height,
                   scroll_position, passes, all_numbers, dedup_order,
                   unique_numbers, primary_counts, pre_sort, idx, posts_data,
                   self_posts_data, returned>>
    /\ UNCHANGED scroll_vars

\* Lines 290-292: with candidates, sort them and enter the for loop;
\* lines 312-313 otherwise.
OrderStep ==
    /\ pc = "order"
    /\ pre_sort' = view_counts
    /\ IF view_counts # <<>>
       THEN /\ view_counts' = SortByPosition(view_counts)
            /\ idx' = 0
            /\ pc' = "build"
            /\ UNCHANGED <<self_posts_data, returned>>
       ELSE /\ self_posts_data' = posts_data
            /\ returned' = Append(returned, posts_data)
            /\ pc' = "done"
            /\ UNCHANGED <<view_counts, idx>>
    /\ UNCHANGED <<surface, scrollY, now, total_height, viewport_height,
                   scroll_position, passes, all_numbers, dedup_order,
                   unique_numbers, primary_counts, fallback_used,
                   fallback_counts, posts_data>>
    /\ UNCHANGED scroll_vars

\* Lines 297-310: one iteration of the for loop.
BuildRecord ==
    /\ pc = "build"
    /\ idx < Len(view_counts)
    /\ posts_data' = Append(posts_data, PostData(idx, view_counts[idx + 1], now))
    /\ idx' = idx + 1
    /\ UNCHANGED <<surface, scrollY, now, pc, total_height, viewport_height,
                   scroll_position, passes, all_numbers, dedup_order,
                   unique_numbers, view_counts, primary_counts,
                   fallback_used, fallback_counts, pre_sort, self_posts_data,
                   returned>>
    /\ UNCHANGED scroll_vars

\* Lines 312-313.
ReturnStep ==
    /\ pc = "build"
    /\ ~(idx < Len(view_counts))
    /\ self_posts_data' = posts_data
    /\ returned' = Append(returned, posts_data)
    /\ pc' = "done"
    /\ UNCHANGED <<surface, scrollY, now, total_height, viewport_height,
                   scroll_position, passes, all_numbers, dedup_order,
                   unique_numbers, view_counts, primary_counts,
                   fallback_used, fallback_counts, pre_sort, idx, posts_data>>
    /\ UNCHANGED scroll_vars

\* Time passes.  The clock is read only at line 307, so only the instants
\* before each record is built can be told apart.
Tick ==
    /\ pc = "build"
    /\ idx < Len(view_counts)
    /\ now < MaxClock
    /\ now' = now + 1
    /\ UNCHANGED <<surface, scrollY, pc, total_height, viewport_height,
                   scroll_position, passes, all_numbers, dedup_order,
                   unique_numbers, view_counts, primary_counts,
                   fallback_used, fallback_counts, pre_sort, idx, posts_data,
                   self_posts_data, returned>>
    /\ UNCHANGED scroll_vars

\* extract_post_views is called once more on the same scraper, against the
\* same page: its locals start afresh, self.posts_data keeps the last result.
CallAgain ==
    /\ pc = "done"
    /\ Len(returned) < 2
    /\ pc' = "start"
    /\ total_height' = 0
    /\ viewport_height' = 0
    /\ scroll_position' = 0
    /\ passes' = 0
    /\ all_numbers' = <<>>
    /\ dedup_order' = <<>>
    /\ unique_numbers' = <<>>
    /\ view_counts' = <<>>
    /\ primary_counts' = <<>>
    /\ fallback_used' = FALSE
    /\ fallback_counts' = <<>>
    /\ pre_sort' = <<>>
    /\ idx' = 0
    /\ posts_data' = NewPostsData
    /\ UNCHANGED <<surface, scrollY, now, self_posts_data, returned>>
    /\ UNCHANGED scroll_vars

Next ==
    \/ ReadMetrics
    \/ SamplePass
    \/ ScrollFails
    \/ SnapshotFails
    \/ ScrollBack
    \/ DedupStep
    \/ SortStep
    \/ ClassifyStep
    \/ EscalateStep
    \/ OrderStep
    \/ BuildRecord
    \/ ReturnStep
    \/ Tick

\* One call of extract_post_views.
Spec == Init /\ [][Next]_vars

\* The pages on which the method is called twice.
RepeatSurfaces ==
    { Surface(page, sp, 1300, 700, js) :
        page \in {"grid6", "grid10"},
        sp \in {"few"},
        js \in [1..JitterPasses -> {<<0, 0>>, <<JitterPx, JitterPx>>}] }

InitRepeat ==
    /\ surface \in RepeatSurfaces
    /\ scrollY = 0
    /\ now = 0
    /\ self_posts_data = <<>>
    /\ returned = <<>>
    /\ EnterExtract
    /\ ScrollIdle

NextRepeat == Next \/ CallAgain

\* Two calls of extract_post_views against the same page.
SpecRepeat == InitRepeat /\ [][NextRepeat]_vars

----------------------------------------------------------------------------
(* scroll_to_load_all_posts (lines 82-135).                                 *)

\* What document.body.scrollHeight can report, and what
\* _count_visible_posts can return.
PageHeights == {1000, 2000}
PostCounts == {0, 3}

\* expected_posts is <<>> for None and <<n>> for the integer n.
ExpectedArgs == {<<>>, <<0>>, <<2>>}

\* The truth value Python gives expected_posts (lines 91, 127).
Truthy(e) == e # <<>> /\ e[1] # 0

\* Variant: a changed height does not reset the counter.
NoChangeNeverReset(new_height, last, count) ==
    IF new_height = last THEN count + 1 ELSE count

\* Lines 116-122: the counter after a step that measured new_height.
NoChangeAfter(new_height, last, count) ==
    IF new_height = last THEN count + 1 ELSE 0

ExtractIdle ==
    /\ surface = Surface("empty", "none", 0, 0, <<>>)
    /\ scrollY = 0
    /\ now = 0
    /\ self_posts_data = <<>>
    /\ returned = <<>>
    /\ EnterExtract

InitScroll ==
    /\ s_pc = "entry"
    /\ expected_posts \in ExpectedArgs
    /\ max_scrolls \in 0..MaxScrollArg
    /\ last_height = 0
    /\ scroll_count = 0
    /\ no_change_count = 0
    /\ current_posts = 0
    /\ measured = <<>>
    /\ stop_reason = "none"
    /\ top_scrolls = 0
    /\ ExtractIdle

\* Lines 94-96.
ScrollEnter ==
    /\ s_pc = "entry"
    /\ \E h \in PageHeights :
           /\ last_height' = h
           /\ measured' = <<h>>
    /\ scroll_count' = 0
    /\ no_change_count' = 0
    /\ s_pc' = "loop"
    /\ UNCHANGED <<expected_posts, max_scrolls, current_posts, stop_reason,
                   top_scrolls>>
    /\ UNCHANGED extract_vars

\* Lines 98-129: one iteration of the while loop, breaks included.
ScrollStep ==
    /\ s_pc = "loop"
    /\ scroll_count < max_scrolls
    /\ \E new_height \in PageHeights, posts \in PostCounts :
           LET count == NoChangeAfter(new_height, last_height, no_change_count)
               bottom == new_height = last_height /\ count >= 3
               enough == Truthy(expected_posts) /\ posts >= expected_posts[1]
           IN  /\ scroll_count' = scroll_count + 1
               /\ measured' = Append(measured, new_height)
               /\ current_posts' = posts
               /\ no_change_count' = count
               /\ last_height' = IF bottom THEN last_height ELSE new_height
               /\ stop_reason' = IF bottom THEN "bottom"
                                  ELSE IF enough THEN "expected" ELSE "none"
               /\ s_pc' = IF bottom \/ enough THEN "top" ELSE "loop"
    /\ UNCHANGED <<expected_posts, max_scrolls, top_scrolls>>
    /\ UNCHANGED extract_vars

\* Line 98: the loop condition fails after max_scrolls steps.
ScrollExhausted ==
    /\ s_pc = "loop"
    /\ ~(scroll_count < max_scrolls)
    /\ stop_reason' = "max"
    /\ s_pc' = "top"
    /\ UNCHANGED <<expected_posts, max_scrolls, last_height, scroll_count,
                   no_change_count, current_posts, measured, top_scrolls>>
    /\ UNCHANGED extract_vars

\* Lines 131-135: scroll back to the top.
ScrollTop ==
    /\ s_pc = "top"
    /\ top_scrolls' = top_scrolls + 1
    /\ s_pc' = "done"
    /\ UNCHANGED <<expected_posts, max_scrolls, last_height, scroll_count,
                   no_change_count, current_posts, measured, stop_reason>>
    /\ UNCHANGED extract_vars

NextScroll ==
    \/ ScrollEnter
    \/ ScrollStep
    \/ ScrollExhausted
    \/ ScrollTop

\* One call of scroll_to_load_all_posts.
SpecScroll == InitScroll /\ [][NextScroll]_vars

----------------------------------------------------------------------------
(* Vocabulary of the properties.                                            *)

Count(seq, x) == Cardinality({k \in 1..Len(seq) : seq[k] = x})

\* The index of the first occurrence of x in seq.
FirstIndex(seq, x) ==
    LET at == {k \in 1..Len(seq) : seq[k] = x}
    IN  CHOOSE k \in at : \A m \in at : k <= m

\* The list just returned.
Result == returned[Len(returned)]

\* records carries exactly the texts of the candidates, one record each.
BuiltFrom(records, candidates) ==
    /\ Len(records) = Len(candidates)
    /\ \A k \in 1..Len(candidates) :
          Cardinality({m \in 1..Len(records) :
                          records[m].views = candidates[k].text})
              = Cardinality({m \in 1..Len(candidates) :
                                candidates[m].text = candidates[k].text})

Band200(n) == n.top \div 200
Cell150(n) == <<n.left \div 150, n.top \div 150>>
Cell250(n) == <<n.left \div 250, n.top \div 250>>
WithinSize(n) ==
    n.width >= 10 /\ n.width <= 100 /\ n.height >= 10 /\ n.height <= 50

Abs(x) == IF x < 0 THEN 0 - x ELSE x

\* Same text, less than 150 pixels apart on both axes.
Near150(a, b) ==
    a.text = b.text /\ Abs(a.left - b.left) < 150 /\ Abs(a.top - b.top) < 150

\* Same text, same 150-pixel grid cell.
SameCell150(a, b) == a.text = b.text /\ Cell150(a) = Cell150(b)

\* (row band, left) of a strictly before that of b.
Before(a, b) ==
    \/ Band200(a) < Band200(b)
    \/ Band200(a) = Band200(b) /\ a.left < b.left

SameKey(a, b) == Band200(a) = Band200(b) /\ a.left = b.left

\* The entries of seq whose (row band, left) is that of x, in order.
RECURSIVE WithKey(_, _)
WithKey(seq, x) ==
    IF seq = <<>> THEN <<>>
    ELSE IF SameKey(Head(seq), x)
         THEN <<Head(seq)>> \o WithKey(Tail(seq), x)
         ELSE WithKey(Tail(seq), x)

----------------------------------------------------------------------------
(* C1.  The fallback extractor is invoked exactly when fewer than 10        *)
(* candidates survive the classifier; when it is invoked the returned       *)
(* records are built from the fallback's candidates alone, also when they   *)
(* are fewer than the primary ones or none; with 10 or more survivors the   *)
(* records are built from the primary candidates.                           *)
C1_FallbackReplacesPrimary ==
    /\ pc \in {"order", "build", "done"} =>
          (fallback_used <=> Len(primary_counts) < 10)
    /\ pc = "done" =>
          IF fallback_used
          THEN BuiltFrom(Result, fallback_counts)
          ELSE BuiltFrom(Result, primary_counts)

\* Nine primary candidates were dropped for fewer fallback candidates.
C1_Witness ==
    /\ pc = "done"
    /\ fallback_used
    /\ Len(primary_counts) = 9
    /\ Len(Result) < 9
    /\ Len(Result) > 0
    /\ \E k \in 1..9 :
          \A m \in 1..Len(Result) : Result[m].views # primary_counts[k].text

----------------------------------------------------------------------------
(* C2.  Once the sampling loop has issued a scroll command, the scroll      *)
(* position is back at the origin on every way the sampling ends, a failed  *)
(* scroll command or snapshot query included.                               *)
C2_ScrollRestoredOnEveryExit ==
    pc \notin {"start", "loop"} => scrollY = 0

----------------------------------------------------------------------------
(* C3.  The sampling loop ends after at most 50 passes, whatever document   *)
(* height and viewport height the browser reports.                          *)
C3_PassesBounded ==
    passes <= 50

----------------------------------------------------------------------------
(* C4.  Two runs of extract_post_views over the same per-pass observations  *)
(* return lists that are equal in every field of every record, whatever     *)
(* the time of each run.                                                    *)
C4_RunsIdentical ==
    Len(returned) = 2 => returned[1] = returned[2]

(* C4, amended.  Two runs over the same per-pass observations return lists  *)
(* of the same length whose records agree, position by position, in every   *)
(* field except scraped_at.                                                 *)
C4_RunsIdenticalButTimestamp ==
    Len(returned) = 2 =>
        /\ Len(returned[1]) = Len(returned[2])
        /\ \A k \in 1..Len(returned[1]) :
              [returned[1][k] EXCEPT !.scraped_at = 0]
                  = [returned[2][k] EXCEPT !.scraped_at = 0]

\* Two completed runs with records, the clock having moved between them.
C4_Witness ==
    /\ Len(returned) = 2
    /\ Len(returned[1]) >= 10
    /\ \E k \in 1..Len(returned[1]) :
          returned[1][k].scraped_at # returned[2][k].scraped_at

----------------------------------------------------------------------------
(* C5.  Two observations with the same text whose lefts differ by less      *)
(* than 150 and whose tops differ by less than 150 never both survive the   *)
(* deduplication.                                                           *)
C5_NearObservationsCollapse ==
    pc = "sort" =>
        \A i, j \in 1..Len(dedup_order) :
            i < j => ~Near150(dedup_order[i], dedup_order[j])

(* C5, amended.  Two observations with the same text that fall in the same  *)
(* 150-pixel grid cell (equal floor(left/150) and equal floor(top/150))     *)
(* never both survive the deduplication: the first observed of them is      *)
(* kept, and every observation has such a representative.                   *)
C5_SameCellObservationsCollapse ==
    pc = "sort" =>
          /\ \A i, j \in 1..Len(dedup_order) :
                i < j => ~SameCell150(dedup_order[i], dedup_order[j])
          /\ \A n \in 1..Len(all_numbers) :
                \E k \in 1..Len(dedup_order) :
                    SameCell150(dedup_order[k], all_numbers[n])
          /\ \A k \in 1..Len(dedup_order) :
                /\ Count(all_numbers, dedup_order[k]) >= 1
                /\ \A m \in 1..(FirstIndex(all_numbers, dedup_order[k]) - 1) :
                      ~SameCell150(all_numbers[m], dedup_order[k])

\* Two sightings at different positions of one cell were collapsed.
C5_Witness ==
    /\ pc = "sort"
    /\ \E i, j \in 1..Len(all_numbers) :
          /\ i < j
          /\ all_numbers[i] # all_numbers[j]
          /\ SameCell150(all_numbers[i], all_numbers[j])
          /\ Count(dedup_order, all_numbers[i]) = 1
          /\ Count(dedup_order, all_numbers[j]) = 0

----------------------------------------------------------------------------
(* C6.  Of the size-filtered candidates that fall in one 250-pixel cell,    *)
(* the survivor is the one that comes first in the order the deduplication  *)
(* produced (first observed).                                               *)
C6_FirstObservedWins ==
    pc = "escalate" =>
        \A k \in 1..Len(primary_counts) :
            \A c \in 1..Len(dedup_order) :
                (WithinSize(dedup_order[c])
                    /\ Cell250(dedup_order[c]) = Cell250(primary_counts[k]))
                => FirstIndex(dedup_order, primary_counts[k]) <= c

(* C6, amended.  Of the size-filtered candidates that fall in one           *)
(* 250-pixel cell, the survivor is the one that comes first once the        *)
(* deduplicated list is sorted by (floor(top/200), left): the one with the  *)
(* smallest such key, and among equal keys the first observed.  Every       *)
(* claimed cell has exactly one survivor.                                   *)
C6_FirstInSortedOrderWins ==
    pc = "escalate" =>
        /\ \A k \in 1..Len(primary_counts) :
              /\ WithinSize(primary_counts[k])
              /\ Count(dedup_order, primary_counts[k]) = 1
              /\ \A c \in 1..Len(dedup_order) :
                    (WithinSize(dedup_order[c])
                        /\ Cell250(dedup_order[c]) = Cell250(primary_counts[k]))
                    => /\ ~Before(dedup_order[c], primary_counts[k])
                       /\ SameKey(dedup_order[c], primary_counts[k]) =>
                             FirstIndex(dedup_order, primary_counts[k]) <= c
        /\ \A c \in 1..Len(dedup_order) :
              WithinSize(dedup_order[c]) =>
                  Cardinality({k \in 1..Len(primary_counts) :
                      Cell250(primary_counts[k]) = Cell250(dedup_order[c])}) = 1

\* A cell whose survivor was observed after another claimant of the cell.
C6_Witness ==
    /\ pc = "escalate"
    /\ \E k \in 1..Len(primary_counts), c \in 1..Len(dedup_order) :
          /\ WithinSize(dedup_order[c])
          /\ Cell250(dedup_order[c]) = Cell250(primary_counts[k])
          /\ c < FirstIndex(dedup_order, primary_counts[k])

----------------------------------------------------------------------------
(* C7.  A page of N distinct 40x20 items, each observed at least once and   *)
(* re-observed at positions jittered within 20 pixels, yields exactly N     *)
(* records image1..imageN, in row-major order, carrying the items' texts.   *)

Items == PageElements(surface.page)
ItemText(el) == Join(el.direct)

\* Leaves with their own, pairwise distinct, text, listed in row-major order.
DistinctItemsPage ==
    /\ \A k \in 1..Len(Items) :
          /\ Items[k].leaf /\ Items[k].direct # <<>>
          /\ Strip(Items[k].direct) = Items[k].direct
          /\ Items[k].width = 40 /\ Items[k].height = 20
    /\ \A i, j \in 1..Len(Items) :
          i < j => /\ Items[i].direct # Items[j].direct
                   /\ Before(Items[i], Items[j])

AllObserved ==
    \A k \in 1..Len(Items) :
        \E n \in 1..Len(all_numbers) : all_numbers[n].text = ItemText(Items[k])

SightingsWithin20 ==
    \A n \in 1..Len(all_numbers) :
        \E k \in 1..Len(Items) :
            /\ all_numbers[n].text = ItemText(Items[k])
            /\ Abs(all_numbers[n].left - Items[k].left) <= 20
            /\ Abs(all_numbers[n].top - Items[k].top) <= 20

\* One record per item, labelled and ordered as the items are.
OneRecordPerItem(records) ==
    /\ Len(records) = Len(Items)
    /\ \A k \in 1..Len(Items) :
          /\ records[k].label = "image" \o ToString(k)
          /\ records[k].views = ItemText(Items[k])

C7_GridScenario ==
    (pc = "done" /\ DistinctItemsPage /\ AllObserved /\ SightingsWithin20)
        => OneRecordPerItem(Result)

\* No two items share a 250-pixel cell, nor a row band and a 250-pixel column.
ItemsApart ==
    \A i, j \in 1..Len(Items) :
        i # j =>
            /\ Cell250(Items[i]) # Cell250(Items[j])
            /\ Band200(Items[i]) = Band200(Items[j]) =>
                  Items[i].left \div 250 # Items[j].left \div 250

\* Every sighting lies in the 250-pixel cell and the row band of its item.
SightingsStay ==
    \A n \in 1..Len(all_numbers) :
        \A k \in 1..Len(Items) :
            all_numbers[n].text = ItemText(Items[k]) =>
                /\ Cell250(all_numbers[n]) = Cell250(Items[k])
                /\ Band200(all_numbers[n]) = Band200(Items[k])

(* C7, amended.  With N >= 10 such items, no two in one 250-pixel cell or   *)
(* in one row band and 250-pixel column, every sighting lying in its item's *)
(* cell and row band, the result is exactly N records image1..imageN in     *)
(* row-major order with the items' texts, built from the primary            *)
(* candidates.  With N < 10 (the case N = 6 included) the result is the     *)
(* fallback extractor's instead.                                            *)
C7_GridScenarioAboveThreshold ==
    (pc = "done" /\ DistinctItemsPage /\ AllObserved) =>
        /\ (Len(Items) >= 10 /\ ItemsApart /\ SightingsStay) =>
              (~fallback_used /\ OneRecordPerItem(Result))
        /\ Len(Items) < 10 =>
              (fallback_used /\ BuiltFrom(Result, fallback_counts))

\* Ten or more items, some seen more than once at shifted positions.
C7_Witness ==
    /\ pc = "done"
    /\ DistinctItemsPage /\ AllObserved /\ ItemsApart /\ SightingsStay
    /\ Len(Items) >= 10
    /\ \E i, j \in 1..Len(all_numbers) :
          /\ all_numbers[i].text = all_numbers[j].text
          /\ Cell150(all_numbers[i]) # Cell150(all_numbers[j])
    /\ OneRecordPerItem(Result)

----------------------------------------------------------------------------
(* C8.  On the primary and on the fallback path, the records follow the     *)
(* candidates ordered by floor(top/200), then by left; candidates with the  *)
(* same (band, left) keep the order they had before the sort.               *)
C8_RowMajorStableOrder ==
    /\ (pc = "build" /\ idx = 0) =>
          /\ Len(view_counts) = Len(pre_sort)
          /\ \A a, b \in 1..Len(view_counts) :
                a < b => ~Before(view_counts[b], view_counts[a])
          /\ \A a \in 1..Len(pre_sort) :
                WithKey(view_counts, pre_sort[a]) = WithKey(pre_sort, pre_sort[a])
          /\ pre_sort = IF fallback_used THEN fallback_counts ELSE primary_counts
    /\ pc = "done" =>
          /\ Len(Result) = Len(view_counts)
          /\ \A k \in 1..Len(view_counts) :
                Result[k].views = view_counts[k].text

\* Two candidates with the same (band, left) reached the output.
C8_Witness ==
    /\ pc = "done"
    /\ \E a, b \in 1..Len(view_counts) :
          /\ a < b
          /\ SameKey(view_counts[a], view_counts[b])
          /\ Result[a].views # Result[b].views

----------------------------------------------------------------------------
(* C9.  The returned list has one record per candidate that survived the    *)
(* classification (per fallback candidate when the fallback replaced        *)
(* them); its k-th record is labelled image{k}; with no candidate from      *)
(* either strategy the list is empty and the call returns normally.         *)
Candidates == IF fallback_used THEN fallback_counts ELSE primary_counts

C9_OneLabelledRecordPerCandidate ==
    /\ pc = "done" =>
          /\ BuiltFrom(Result, Candidates)
          /\ \A k \in 1..Len(Result) : Result[k].label = "image" \o ToString(k)
          /\ \A a, b \in 1..Len(Result) :
                a # b => Result[a].label # Result[b].label
          /\ self_posts_data = Result
    /\ (fallback_used /\ primary_counts = <<>> /\ fallback_counts = <<>>) =>
          /\ pc \in {"order", "done"}
          /\ pc = "done" => Result = <<>>

\* Ten or more candidates, hence labels image1..image10 and beyond.
C9_Witness ==
    /\ pc = "done"
    /\ Len(Candidates) >= 10
    /\ Result[10].label = "image10"

----------------------------------------------------------------------------
(* C10.  scroll_to_load_all_posts performs at most max_scrolls steps; it    *)
(* stops earlier only at the third consecutive step whose height equals     *)
(* the previous measurement, or at a step where expected_posts is given     *)
(* and the post count has reached it; on each of these exits it scrolls     *)
(* back to the top exactly once.                                            *)

\* How many of the last measurements equal their predecessor in a row.
RECURSIVE TrailingEqual(_)
TrailingEqual(m) ==
    IF Len(m) < 2 THEN 0
    ELSE IF m[Len(m)] = m[Len(m) - 1]
         THEN 1 + TrailingEqual(SubSeq(m, 1, Len(m) - 1))
         ELSE 0

ExpectedReached ==
    /\ expected_posts # <<>>
    /\ expected_posts[1] # 0
    /\ current_posts >= expected_posts[1]

C10_ScrollLoopExits ==
    /\ scroll_count <= max_scrolls
    /\ Len(measured) = (IF s_pc = "entry" THEN 0 ELSE scroll_count + 1)
    /\ s_pc \in {"top", "done"} =>
          /\ scroll_count < max_scrolls =>
                (TrailingEqual(measured) = 3 \/ ExpectedReached)
          /\ stop_reason = "bottom" => TrailingEqual(measured) = 3
          /\ stop_reason = "expected" => ExpectedReached
          /\ stop_reason = "max" => scroll_count = max_scrolls
    /\ (s_pc = "loop" /\ scroll_count >= 1) =>
          (TrailingEqual(measured) < 3 /\ ~ExpectedReached)
    /\ top_scrolls = (IF s_pc = "done" THEN 1 ELSE 0)

\* An early stop at the bottom, after the counter was reset by a change.
C10_Witness ==
    /\ s_pc = "done"
    /\ stop_reason = "bottom"
    /\ scroll_count < max_scrolls
    /\ \E k \in 2..(Len(measured) - 3) :
          measured[k] = measured[k - 1] /\ measured[k + 1] # measured[k]

====
